---- MODULE Spec2Model ----
(***************************************************************************)
(* The tray hold-time aggregation of sbarro_report.py: the run loop of     *)
(* main (fetch, resolve the name, aggregate) and aggregate_metrics, one    *)
(* step per reading.                                                       *)
(*                                                                         *)
(* Representation.                                                         *)
(*  - A datetime is the number of seconds since 2024-12-31 00:00:00, a     *)
(*    timedelta a number of seconds (Python integers, both signed).        *)
(*  - A text (str) is a sequence of character codes where its order is     *)
(*    used (the day keys, the location names).  A timestamp text of a      *)
(*    reading is [ok |-> TRUE, t |-> datetime] when it is in the format    *)
(*    strptime is given, and [ok |-> FALSE] when it is not.                *)
(*  - A dict is the sequence of its [key, value] items in insertion order. *)
(*    A reading is a function whose DOMAIN is the set of keys it has.      *)
(*  - A float percentage is the exact reduced fraction it rounds.          *)
(***************************************************************************)
EXTENDS Integers, Sequences, FiniteSets, TLC

VARIABLES
    pc,             \* position of main / aggregate_metrics
    LOC_IDS,        \* the configured location ids, in order
    loc_idx,        \* position of main's for loop in LOC_IDS
    data,           \* what fetch_sensor_readings returned for the location
    location_name,  \* what get_location_name returned
    daily_metrics,  \* the accumulated state
    batch_taken,    \* whether the outer loop has taken a record of data yet
    total_trays,    \* len(readings) of the current batch
    idx,            \* how many readings of the current batch were taken
    reading,        \* the loop variable: the reading taken last
    error,          \* the exception that ended the run, or "none"
    taken,          \* history: number of readings the run has taken
    contributed,    \* history: {<<day, name, batch size>>} of the readings
                    \* that reached a group
    perm            \* a call on a given list of batches taken in any order:
                    \* the list, the state it starts from, what is left

vars == <<pc, LOC_IDS, loc_idx, data, location_name, daily_metrics,
          batch_taken, total_trays, idx, reading, error, taken,
          contributed, perm>>

---------------------------------------------------------------------------
(* Bounds of the model *)

MaxBatchLen == 2
MaxReadings == 3

---------------------------------------------------------------------------
(* Values *)

Min(a, b) == IF a < b THEN a ELSE b
Max(a, b) == IF a > b THEN a ELSE b

RECURSIVE GCD(_, _)
GCD(a, b) == IF b = 0 THEN a ELSE GCD(b, a % b)

\* str < str: code point by code point, a proper prefix first.
RECURSIVE StrLess(_, _)
StrLess(a, b) ==
    IF b = <<>> THEN FALSE
    ELSE IF a = <<>> THEN TRUE
    ELSE IF Head(a) # Head(b) THEN Head(a) < Head(b)
    ELSE StrLess(Tail(a), Tail(b))

SecondsPerDay == 24 * 3600
Hms(h, m, s) == h * 3600 + m * 60 + s

\* The calendar dates of the days the model's timestamps fall on.
Calendar == << <<2024, 12, 31>>, <<2025, 1, 1>>, <<2025, 1, 2>> >>

Digit(d) == 48 + d
Pad2(n) == <<Digit(n \div 10), Digit(n % 10)>>
Pad4(n) == <<Digit(n \div 1000), Digit((n \div 100) % 10),
             Digit((n \div 10) % 10), Digit(n % 10)>>

\* initial_timestamp.strftime("%Y-%m-%d"); 45 is "-".
strftime_day(t) ==
    LET d == Calendar[(t \div SecondsPerDay) + 1]
    IN  Pad4(d[1]) \o <<45>> \o Pad2(d[2]) \o <<45>> \o Pad2(d[3])

\* The locations of the organisation and their display names ("B", "Ab").
LocIds == {"loc-1", "loc-2"}
get_location_name(loc_id) == IF loc_id = "loc-1" THEN <<66>> ELSE <<65, 98>>

---------------------------------------------------------------------------
(* Input: the readings a batch may hold *)

Text(t) == [ok |-> TRUE, t |-> t]
Garbled == [ok |-> FALSE]

InitialStamps ==
    { Hms(9, 0, 0),
      SecondsPerDay + Hms(9, 0, 0),
      SecondsPerDay + Hms(9, 5, 0) }

HoldTimes == { 0 - 3600, 2 * 3600, 6 * 3600 }

\* Every hold time on the second day, and one reading on the first.
WellFormed ==
    { [initial_timestamp |-> Text(i), current_timestamp |-> Text(i + h)] :
        i \in { t \in InitialStamps : t >= SecondsPerDay }, h \in HoldTimes }
    \cup
    { [initial_timestamp |-> Text(i), current_timestamp |-> Text(i + 2 * 3600)] :
        i \in { t \in InitialStamps : t < SecondsPerDay } }

Malformed ==
    { [current_timestamp |-> Text(Hms(9, 0, 0))],
      [initial_timestamp |-> Text(Hms(9, 0, 0))],
      [initial_timestamp |-> Garbled],
      [initial_timestamp |-> Text(Hms(9, 0, 0)), current_timestamp |-> Garbled] }

Readings == WellFormed \cup Malformed

NoReading == <<>>

---------------------------------------------------------------------------
(* dict *)

Keys(d) == { d[i].key : i \in DOMAIN d }
Lookup(d, k) == d[CHOOSE i \in DOMAIN d : d[i].key = k].value
Store(d, k, v) ==
    IF k \in Keys(d)
    THEN [i \in DOMAIN d |-> IF d[i].key = k THEN [key |-> k, value |-> v] ELSE d[i]]
    ELSE Append(d, [key |-> k, value |-> v])

Without(s, i) == [j \in 1..(Len(s) - 1) |-> IF j < i THEN s[j] ELSE s[j + 1]]

\* sorted(d.items()): the keys of a dict are distinct, so the keys decide.
RECURSIVE SortedItems(_)
SortedItems(d) ==
    IF d = <<>> THEN <<>>
    ELSE LET m == CHOOSE i \in DOMAIN d :
                    \A j \in DOMAIN d : j # i => StrLess(d[i].key, d[j].key)
         IN  <<d[m]>> \o SortedItems(Without(d, m))

---------------------------------------------------------------------------
(* aggregate_metrics, the body of the try *)

\* What lines 75-76 do with a reading: look up and parse initial_timestamp,
\* then look up and parse current_timestamp.
ParseOutcome(r) ==
    IF "initial_timestamp" \notin DOMAIN r THEN "KeyError"
    ELSE IF ~r.initial_timestamp.ok THEN "ValueError"
    ELSE IF "current_timestamp" \notin DOMAIN r THEN "KeyError"
    ELSE IF ~r.current_timestamp.ok THEN "ValueError"
    ELSE "ok"

HoldLimitHours == 4
HoldLimit == HoldLimitHours * 3600

ExceedsHold(hold_time) == hold_time > HoldLimit

\* (trays_exceeding_hold_time / total_trays) * 100
Percentage(exceeding, trays) ==
    LET g == GCD(exceeding * 100, trays)
    IN  [num |-> (exceeding * 100) \div g, den |-> trays \div g]

ZeroPercentage == [num |-> 0, den |-> 1]

NewMetrics(initial_timestamp, trays, hold_time) ==
    [ first_tray_time |-> initial_timestamp,
      last_tray_count |-> trays,
      last_tray_time |-> initial_timestamp,
      percentage_trays_over_hold |-> ZeroPercentage,
      total_trays |-> trays,
      trays_exceeding_hold_time |-> IF ExceedsHold(hold_time) THEN 1 ELSE 0,
      total_hold_time |-> hold_time ]

\* A faulty variant: an equal count takes the pair whatever the timestamp.
LastTrayAdvances_CountOrEqual(store_metrics, initial_timestamp, trays) ==
    trays >= store_metrics.last_tray_count

LastTrayAdvances(store_metrics, initial_timestamp, trays) ==
    \/ trays > store_metrics.last_tray_count
    \/ /\ trays = store_metrics.last_tray_count
       /\ initial_timestamp > store_metrics.last_tray_time

\* A faulty variant: the count of the batch at hand replaces the total.
RunningTotalTrays_Latest(store_metrics, trays) == trays

RunningTotalTrays(store_metrics, trays) == Max(trays, store_metrics.total_trays)

\* A faulty variant: the reading at hand replaces the first tray time.
FirstTrayTime_Overwrite(store_metrics, initial_timestamp) == initial_timestamp

FirstTrayTime(store_metrics, initial_timestamp) ==
    Min(store_metrics.first_tray_time, initial_timestamp)

UpdateMetrics(store_metrics, initial_timestamp, trays, hold_time) ==
    LET advances == LastTrayAdvances(store_metrics, initial_timestamp, trays)
        total == RunningTotalTrays(store_metrics, trays)
        exceeding == store_metrics.trays_exceeding_hold_time + 1
    IN  [ store_metrics EXCEPT
            !.first_tray_time = FirstTrayTime(store_metrics, initial_timestamp),
            !.last_tray_time = IF advances THEN initial_timestamp ELSE @,
            !.last_tray_count = IF advances THEN trays ELSE @,
            !.total_trays = total,
            !.total_hold_time = @ + hold_time,
            !.trays_exceeding_hold_time =
                IF ExceedsHold(hold_time) THEN exceeding ELSE @,
            !.percentage_trays_over_hold =
                IF ExceedsHold(hold_time) THEN Percentage(exceeding, total) ELSE @ ]

HoldTime(r) == r.current_timestamp.t - r.initial_timestamp.t
DayOf(r) == strftime_day(r.initial_timestamp.t)

StoresOf(metrics, day) == IF day \in Keys(metrics) THEN Lookup(metrics, day) ELSE <<>>

\* Lines 75-111 for a reading both of whose timestamps parse.
IngestReading(metrics, name, trays, r) ==
    LET initial_timestamp == r.initial_timestamp.t
        hold_time == HoldTime(r)
        day == DayOf(r)
        stores == StoresOf(metrics, day)
        group == IF name \in Keys(stores)
                 THEN UpdateMetrics(Lookup(stores, name), initial_timestamp,
                                    trays, hold_time)
                 ELSE NewMetrics(initial_timestamp, trays, hold_time)
    IN  Store(metrics, day, Store(stores, name, group))

---------------------------------------------------------------------------
(* aggregate_metrics, after the loops *)

\* timedelta / int: the quotient in microseconds, rounded half to even,
\* as timedelta(days, seconds, microseconds).
TimedeltaDiv(seconds, n) ==
    LET q == seconds \div n
        a == (seconds % n) * 1000000
        qq == a \div n
        rr == a % n
        up == 2 * rr > n \/ (2 * rr = n /\ qq % 2 = 1)
    IN  [ days |-> q \div SecondsPerDay,
          seconds |-> q % SecondsPerDay,
          microseconds |-> IF up THEN qq + 1 ELSE qq ]

ZeroAverage == [days |-> 0, seconds |-> 0, microseconds |-> 0]

AverageHoldTime(m) ==
    IF m.total_trays > 0 THEN TimedeltaDiv(m.total_hold_time, m.total_trays)
    ELSE ZeroAverage

\* A faulty variant: a group that has an average keeps it.
SetAverage_KeepExisting(m) ==
    IF "average_hold_time" \in DOMAIN m THEN m
    ELSE [ k \in DOMAIN m \cup {"average_hold_time"} |->
             IF k = "average_hold_time" THEN AverageHoldTime(m) ELSE m[k] ]

SetAverage(m) ==
    [ k \in DOMAIN m \cup {"average_hold_time"} |->
        IF k = "average_hold_time" THEN AverageHoldTime(m) ELSE m[k] ]

WithAverages(metrics) ==
    [ i \in DOMAIN metrics |->
        [ key |-> metrics[i].key,
          value |-> [ j \in DOMAIN metrics[i].value |->
                        [ key |-> metrics[i].value[j].key,
                          value |-> SetAverage(metrics[i].value[j].value) ] ] ] ]

\* A faulty variant: the days are sorted, the locations of a day are not.
SortedMetrics_DaysOnly(metrics) == SortedItems(metrics)

SortedMetrics(metrics) ==
    LET days == SortedItems(metrics)
    IN  [ i \in DOMAIN days |->
            [key |-> days[i].key, value |-> SortedItems(days[i].value)] ]

Returned(metrics) == SortedMetrics(WithAverages(metrics))

---------------------------------------------------------------------------
(* fetch_sensor_readings *)

\* The value fetch_sensor_readings returns: None, [] or a list of batches.
\* The batches of a list are drawn as the loop of aggregate_metrics reaches
\* them, so a list is kept as whether it has any.
None == "None"
EmptyList == "[]"
Batches == "batches"

\* A failed query returns []; a response is returned if it is truthy, and
\* otherwise the value of print(...), which is None.
fetch_sensor_readings(failed, response_empty) ==
    IF failed THEN EmptyList
    ELSE IF ~response_empty THEN Batches
    ELSE None

---------------------------------------------------------------------------
(* The run *)

\* LOC_IDS: a list of configured location ids, in any order; an id may be
\* listed twice.
LocSeqs == UNION { [1..n -> LocIds] : n \in 1..Cardinality(LocIds) }

NoPerm == [input |-> <<>>, start |-> <<>>, batches |-> {}, readings |-> {}]

Init ==
    /\ pc = "fetch"
    /\ LOC_IDS \in LocSeqs
    /\ loc_idx = 1
    /\ data = EmptyList
    /\ location_name = <<>>
    /\ daily_metrics = <<>>
    /\ batch_taken = FALSE
    /\ total_trays = 0
    /\ idx = 0
    /\ reading = NoReading
    /\ error = "none"
    /\ taken = 0
    /\ contributed = {}
    /\ perm = NoPerm

\* main, line 247
Fetch ==
    /\ pc = "fetch"
    /\ loc_idx <= Len(LOC_IDS)
    /\ \E failed, response_empty \in BOOLEAN :
          data' = fetch_sensor_readings(failed, response_empty)
    /\ pc' = "name"
    /\ UNCHANGED <<LOC_IDS, loc_idx, location_name, daily_metrics, batch_taken,
                   total_trays, idx, reading, error, taken, contributed, perm>>

\* main, line 248, and the call of line 249
GetLocationName ==
    /\ pc = "name"
    /\ location_name' = get_location_name(LOC_IDS[loc_idx])
    /\ batch_taken' = FALSE
    /\ pc' = "batch"
    /\ UNCHANGED <<LOC_IDS, loc_idx, data, daily_metrics, total_trays, idx,
                   reading, error, taken, contributed, perm>>

\* for records in data, with data None
IterateNone ==
    /\ pc = "batch"
    /\ data = None
    /\ error' = "TypeError"
    /\ pc' = "raised"
    /\ UNCHANGED <<LOC_IDS, loc_idx, data, location_name, daily_metrics,
                   batch_taken, total_trays, idx, reading, taken, contributed,
                   perm>>

AfterReading(n, trays) == IF n = trays THEN "batch" ELSE "reading"

\* Lines 70-72 for a batch of n readings.
TakeBatch(n) ==
    /\ pc = "batch"
    /\ data = Batches
    /\ total_trays' = n
    /\ pc' = AfterReading(0, n)
    /\ idx' = 0
    /\ batch_taken' = TRUE
    /\ UNCHANGED <<LOC_IDS, loc_idx, data, location_name, daily_metrics,
                   reading, error, taken, contributed>>

\* Lines 73-114 for the reading r.
TakeReading(r) ==
    /\ pc = "reading"
    /\ reading' = r
    /\ idx' = idx + 1
    /\ taken' = taken + 1
    /\ CASE ParseOutcome(r) = "ok" ->
              /\ daily_metrics' =
                    IngestReading(daily_metrics, location_name, total_trays, r)
              /\ contributed' =
                    contributed \cup {<<DayOf(r), location_name, total_trays>>}
              /\ pc' = AfterReading(idx + 1, total_trays)
              /\ error' = error
         [] ParseOutcome(r) = "KeyError" ->
              /\ pc' = AfterReading(idx + 1, total_trays)
              /\ UNCHANGED <<daily_metrics, contributed, error>>
         [] OTHER ->
              /\ error' = ParseOutcome(r)
              /\ pc' = "raised"
              /\ UNCHANGED <<daily_metrics, contributed>>
    /\ UNCHANGED <<LOC_IDS, loc_idx, data, location_name, batch_taken,
                   total_trays>>

\* Lines 116-124, and the assignment of line 249.
ReturnMetrics ==
    /\ pc = "batch"
    /\ data = EmptyList \/ (data = Batches /\ batch_taken)
    /\ daily_metrics' = Returned(daily_metrics)
    /\ loc_idx' = loc_idx + 1
    /\ total_trays' = 0
    /\ idx' = 0
    /\ reading' = NoReading
    /\ pc' = "fetch"
    /\ UNCHANGED <<LOC_IDS, data, location_name, batch_taken, error, taken,
                   contributed>>

NextBatch ==
    /\ \E n \in 0..Min(MaxBatchLen, MaxReadings - taken) : TakeBatch(n)
    /\ UNCHANGED perm

Ingest ==
    /\ \E r \in Readings : ParseOutcome(r) = "ok" /\ TakeReading(r)
    /\ UNCHANGED perm

SkipKeyError ==
    /\ \E r \in Readings : ParseOutcome(r) = "KeyError" /\ TakeReading(r)
    /\ UNCHANGED perm

RaiseValueError ==
    /\ \E r \in Readings : ParseOutcome(r) = "ValueError" /\ TakeReading(r)
    /\ UNCHANGED perm

Return ==
    /\ ReturnMetrics
    /\ UNCHANGED perm

\* main, line 251
GeneratePdf ==
    /\ pc = "fetch"
    /\ loc_idx > Len(LOC_IDS)
    /\ pc' = "done"
    /\ UNCHANGED <<LOC_IDS, loc_idx, data, location_name, daily_metrics,
                   batch_taken, total_trays, idx, reading, error, taken,
                   contributed, perm>>

Next ==
    \/ Fetch
    \/ GetLocationName
    \/ IterateNone
    \/ NextBatch
    \/ Ingest
    \/ SkipKeyError
    \/ RaiseValueError
    \/ Return
    \/ GeneratePdf

Spec == Init /\ [][Next]_vars

---------------------------------------------------------------------------
(* aggregate_metrics as a function of a list of batches, each a list of    *)
(* readings: what the steps above compute, taking the list in its order.   *)

RECURSIVE AggregateReadings(_, _, _, _)
AggregateReadings(metrics, name, readings, i) ==
    IF i > Len(readings) THEN [metrics |-> metrics, error |-> "none"]
    ELSE IF ParseOutcome(readings[i]) = "KeyError"
         THEN AggregateReadings(metrics, name, readings, i + 1)
    ELSE IF ParseOutcome(readings[i]) = "ok"
         THEN AggregateReadings(
                  IngestReading(metrics, name, Len(readings), readings[i]),
                  name, readings, i + 1)
    ELSE [metrics |-> metrics, error |-> ParseOutcome(readings[i])]

RECURSIVE AggregateBatches(_, _, _, _)
AggregateBatches(metrics, name, batches, b) ==
    IF b > Len(batches) THEN [metrics |-> metrics, error |-> "none"]
    ELSE LET one == AggregateReadings(metrics, name, batches[b], 1)
         IN  IF one.error = "none"
             THEN AggregateBatches(one.metrics, name, batches, b + 1)
             ELSE one

aggregate_metrics(batches, metrics, name) ==
    LET all == AggregateBatches(metrics, name, batches, 1)
    IN  IF all.error = "none"
        THEN [metrics |-> Returned(all.metrics), error |-> "none"]
        ELSE all

---------------------------------------------------------------------------
(* One call of aggregate_metrics on a given list of well-formed batches,   *)
(* the batches taken in any order and the readings of a batch in any order *)

MaxPermReadings == 3

PermName == get_location_name("loc-1")

PermReadings ==
    { r \in WellFormed : r.initial_timestamp.t >= SecondsPerDay }

\* The list f cut into batches after the positions of c, from position i on.
RECURSIVE Split(_, _, _)
Split(f, c, i) ==
    IF i > Len(f) THEN <<>>
    ELSE LET j == CHOOSE j \in i..Len(f) :
                    /\ j \in c \/ j = Len(f)
                    /\ \A k \in i..(j - 1) : k \notin c
         IN  <<SubSeq(f, i, j)>> \o Split(f, c, j + 1)

PermInputs ==
    UNION { { Split(f, c, 1) : f \in [1..n -> PermReadings],
                               c \in SUBSET (1..(n - 1)) } :
            n \in 1..MaxPermReadings }

\* The states the call may start from: no group yet, or the group an
\* earlier call for the same name left.
PermStarts ==
    { <<>> } \cup
    { aggregate_metrics(<< <<r, r>> >>, <<>>, PermName).metrics :
        r \in { q \in PermReadings : q.initial_timestamp.t = SecondsPerDay + Hms(9, 5, 0)
                                     /\ ExceedsHold(HoldTime(q)) } }

InitPerm ==
    /\ pc = "batch"
    /\ LOC_IDS = <<"loc-1">>
    /\ loc_idx = 1
    /\ data = Batches
    /\ location_name = PermName
    /\ \E d \in PermInputs, s \in PermStarts :
          /\ perm = [input |-> d, start |-> s, batches |-> DOMAIN d, readings |-> {}]
          /\ daily_metrics = s
    /\ batch_taken = FALSE
    /\ total_trays = 0
    /\ idx = 0
    /\ reading = NoReading
    /\ error = "none"
    /\ taken = 0
    /\ contributed = {}

\* The batch the readings left in perm belong to is the one taken last.
PermNextBatch ==
    /\ perm.readings = {}
    /\ \E b \in perm.batches :
          /\ TakeBatch(Len(perm.input[b]))
          /\ perm' = [perm EXCEPT !.batches = @ \ {b},
                                  !.readings = { <<b, i>> : i \in DOMAIN perm.input[b] }]

PermIngest ==
    \E p \in perm.readings :
        /\ TakeReading(perm.input[p[1]][p[2]])
        /\ perm' = [perm EXCEPT !.readings = @ \ {p}]

PermReturn ==
    /\ perm.batches = {}
    /\ perm.readings = {}
    /\ ReturnMetrics
    /\ UNCHANGED perm

NextPerm ==
    \/ PermNextBatch
    \/ PermIngest
    \/ PermReturn

SpecPerm == InitPerm /\ [][NextPerm]_vars

PermReturned == pc = "fetch" /\ perm.input # <<>>

\* The same call with the batches and the readings in the order given.
PermReference == aggregate_metrics(perm.input, perm.start, location_name).metrics

---------------------------------------------------------------------------
(* Properties *)

\* daily_metrics[day][name], and the (day, name) pairs that have a group
GroupAt(metrics, day, name) == Lookup(Lookup(metrics, day), name)
Groups(metrics) ==
    UNION { { <<metrics[i].key, metrics[i].value[j].key>> :
                j \in DOMAIN metrics[i].value } : i \in DOMAIN metrics }

HasGroup(metrics, day, name) == <<day, name>> \in Groups(metrics)

\* The reading taken last reached the group of its day and the location.
ReadingIngested ==
    /\ reading # NoReading
    /\ "initial_timestamp" \in DOMAIN reading
    /\ "current_timestamp" \in DOMAIN reading
    /\ reading.initial_timestamp.ok
    /\ reading.current_timestamp.ok

Reading(t, hold) == [initial_timestamp |-> Text(t), current_timestamp |-> Text(t + hold)]
BatchOf(n, r) == [i \in 1..n |-> r]
OnlyGroup(metrics) == metrics[1].value[1].value

LacksTimestamp(r) ==
    "initial_timestamp" \notin DOMAIN r \/ "current_timestamp" \notin DOMAIN r

HasUnparseable(r) ==
    \E k \in DOMAIN r : ~r[k].ok

\* The step took a reading, which the primed reading is.
TookReading == pc = "reading" /\ idx' = idx + 1

Skipped ==
    /\ daily_metrics' = daily_metrics
    /\ error' = "none"
    /\ pc' \in {"reading", "batch"}
    /\ total_trays' = total_trays

\* C1: a reading that lacks initial_timestamp or current_timestamp is
\* skipped: the step that takes it changes no group, keeps the batch's tray
\* count, raises nothing and leaves the loop going.
C1_LackingFieldSkipped ==
    [][(TookReading /\ LacksTimestamp(reading')) => Skipped]_vars

\* C2: a reading with a timestamp that is present but does not parse is
\* skipped: the step that takes it changes no group and raises nothing.
C2_UnparseableSkipped ==
    [][(TookReading /\ HasUnparseable(reading')) => Skipped]_vars

\* C3: a location whose fetch failed or returned no batches is an empty
\* contribution: the call returns, the state is what it was, no error is
\* raised and the loop is at the next location.
C3_EmptyFetchIsEmptyContribution ==
    [][(pc = "batch" /\ data \in {None, EmptyList}) =>
          /\ daily_metrics' = daily_metrics
          /\ error' = "none"
          /\ pc' = "fetch"
          /\ loc_idx' = loc_idx + 1]_vars

\* The example of C4, ingested into the state while it is empty.
C4_Example ==
    daily_metrics = <<>> =>
    LET nine == SecondsPerDay + Hms(9, 0, 0)
        fiveTo == SecondsPerDay + Hms(8, 50, 0)
        fivePast == SecondsPerDay + Hms(9, 5, 0)
        batches == << BatchOf(5, Reading(nine, 2 * 3600)),
                      BatchOf(5, Reading(fivePast, 2 * 3600)),
                      BatchOf(6, Reading(fiveTo, 2 * 3600)) >>
        got == aggregate_metrics(batches, daily_metrics, PermName)
    IN  /\ got.error = "none"
        /\ OnlyGroup(got.metrics).last_tray_time = fiveTo
        /\ OnlyGroup(got.metrics).last_tray_count = 6

\* C4: a reading applied to an existing group replaces last_tray_time and
\* last_tray_count by its initial_timestamp and its batch's tray count if
\* and only if the count is greater than the stored one, or equal with a
\* later initial_timestamp; otherwise both stay.  (09:00, 5), (09:05, 5),
\* (08:50, 6) end at 08:50 and 6.
C4_LastTrayRule ==
    /\ [][(TookReading /\ ReadingIngested'
              /\ HasGroup(daily_metrics, DayOf(reading'), location_name)) =>
            LET old == GroupAt(daily_metrics, DayOf(reading'), location_name)
                new == GroupAt(daily_metrics', DayOf(reading'), location_name)
                t == reading'.initial_timestamp.t
            IN  IF \/ total_trays > old.last_tray_count
                   \/ (total_trays = old.last_tray_count /\ t > old.last_tray_time)
                THEN new.last_tray_time = t /\ new.last_tray_count = total_trays
                ELSE /\ new.last_tray_time = old.last_tray_time
                     /\ new.last_tray_count = old.last_tray_count]_vars
    /\ []C4_Example

\* A later reading of a smaller batch reached a group and did not take its
\* last-tray pair: the count decides before the time.
C4_Witness ==
    /\ ReadingIngested
    /\ total_trays = 1
    /\ reading.initial_timestamp.t = SecondsPerDay + Hms(9, 5, 0)
    /\ LET g == GroupAt(daily_metrics, DayOf(reading), location_name)
       IN  /\ g.last_tray_count = 2
           /\ g.last_tray_time = SecondsPerDay + Hms(9, 0, 0)

SetMax(S) == CHOOSE x \in S : \A y \in S : y <= x

\* The example of C5, ingested into the state while it is empty.
C5_Example ==
    daily_metrics = <<>> =>
    LET r == Reading(SecondsPerDay + Hms(9, 0, 0), 2 * 3600)
        sizes == <<3, 5, 2, 7>>
        upTo(k) == aggregate_metrics([b \in 1..k |-> BatchOf(sizes[b], r)],
                                     daily_metrics, PermName)
    IN  /\ OnlyGroup(upTo(1).metrics).total_trays = 3
        /\ OnlyGroup(upTo(2).metrics).total_trays = 5
        /\ OnlyGroup(upTo(3).metrics).total_trays = 5
        /\ OnlyGroup(upTo(4).metrics).total_trays = 7

\* C5: the total_trays of a group is the largest size among the batches
\* that contributed a reading to it, and no step lowers it.  Batches of 3,
\* 5, 2, 7 readings leave it at 7.
C5_TotalTraysIsRunningMax ==
    /\ [](\A g \in Groups(daily_metrics) :
            GroupAt(daily_metrics, g[1], g[2]).total_trays =
                SetMax({ c[3] : c \in { d \in contributed : d[1] = g[1] /\ d[2] = g[2] } }))
    /\ []({ <<c[1], c[2]>> : c \in contributed } = Groups(daily_metrics))
    /\ []C5_Example
    /\ [][\A g \in Groups(daily_metrics) :
            /\ g \in Groups(daily_metrics')
            /\ GroupAt(daily_metrics', g[1], g[2]).total_trays >=
                   GroupAt(daily_metrics, g[1], g[2]).total_trays]_vars

\* A reading of a batch of one reached a group whose total_trays is 2.
C5_Witness ==
    /\ ReadingIngested
    /\ total_trays = 1
    /\ <<DayOf(reading), location_name, 1>> \in contributed
    /\ <<DayOf(reading), location_name, 2>> \in contributed
    /\ GroupAt(daily_metrics, DayOf(reading), location_name).total_trays = 2

HundredPercent == [num |-> 100, den |-> 1]

\* C6: a group made from one batch of one reading whose hold time is above
\* the limit has trays_exceeding_hold_time = 1 and
\* percentage_trays_over_hold = 100.
C6_SingleExceedingReading ==
    \A g \in Groups(daily_metrics) :
        LET m == GroupAt(daily_metrics, g[1], g[2])
        IN  (taken = 1 /\ m.total_trays = 1 /\ m.total_hold_time > HoldLimit) =>
                /\ m.trays_exceeding_hold_time = 1
                /\ m.percentage_trays_over_hold = HundredPercent

Ascending(d) == \A i, j \in DOMAIN d : i < j => StrLess(d[i].key, d[j].key)

\* C7: the state a call returned lists its days in ascending order and the
\* locations of every day in ascending order.
C7_ReturnedSorted ==
    pc \in {"fetch", "name", "done"} =>
        /\ Ascending(daily_metrics)
        /\ \A i \in DOMAIN daily_metrics : Ascending(daily_metrics[i].value)

\* Location "B" was aggregated before "Ab", both have a group on a day, and
\* there is another day.
C7_Witness ==
    /\ pc = "done"
    /\ LOC_IDS = <<"loc-1", "loc-2">>
    /\ Len(daily_metrics) = 2
    /\ \E i \in DOMAIN daily_metrics : Len(daily_metrics[i].value) = 2

\* The average times the tray count is the total, to half a microsecond a
\* tray.
AverageIsQuotient(m) ==
    LET a == m.average_hold_time
        whole == a.days * SecondsPerDay + a.seconds
        rest == m.total_hold_time - whole * m.total_trays
        d == a.microseconds * m.total_trays - rest * 1000000
    IN  /\ a.microseconds \in 0..999999
        /\ a.seconds \in 0..(SecondsPerDay - 1)
        /\ rest \in 0..(m.total_trays - 1)
        /\ 2 * d <= m.total_trays
        /\ 2 * d >= 0 - m.total_trays

\* The example of C8, ingested into the state while it is empty.
C8_Example ==
    daily_metrics = <<>> =>
    LET nine == SecondsPerDay + Hms(9, 0, 0)
        got == aggregate_metrics(
                   << <<Reading(nine, 2 * 3600), Reading(nine, 6 * 3600)>> >>,
                   daily_metrics, PermName)
    IN  /\ OnlyGroup(got.metrics).total_trays = 2
        /\ OnlyGroup(got.metrics).average_hold_time =
               [days |-> 0, seconds |-> 4 * 3600, microseconds |-> 0]

\* C8: when a call has returned, every group, those of earlier calls
\* included, has average_hold_time = total_hold_time / total_trays of its
\* current total_hold_time and total_trays (0 with no trays).  Hold times of
\* 2h and 6h with total_trays = 2 give 4h.
C8_AverageOfEveryGroup ==
    /\ pc \in {"fetch", "name", "done"} =>
          \A g \in Groups(daily_metrics) :
              LET m == GroupAt(daily_metrics, g[1], g[2])
              IN  /\ "average_hold_time" \in DOMAIN m
                  /\ IF m.total_trays > 0 THEN AverageIsQuotient(m)
                     ELSE m.average_hold_time = ZeroAverage
    /\ C8_Example

\* A later call for the same name has added to a group of an earlier call:
\* the group holds 2h and 6h, two trays, and an average of 4h.
C8_Witness ==
    /\ pc = "done"
    /\ LOC_IDS = <<"loc-1", "loc-1">>
    /\ \E g \in Groups(daily_metrics) :
          LET m == GroupAt(daily_metrics, g[1], g[2])
          IN  /\ m.total_trays = 2
              /\ m.total_hold_time = 8 * 3600
              /\ m.trays_exceeding_hold_time = 1
              /\ m.average_hold_time =
                     [days |-> 0, seconds |-> 4 * 3600, microseconds |-> 0]
              /\ {c[3] : c \in contributed} = {1, 2}

\* C9: a reading whose current_timestamp is earlier than its
\* initial_timestamp is skipped and changes no group.
C9_NegativeHoldSkipped ==
    [][(TookReading /\ ReadingIngested' /\ HoldTime(reading') < 0) => Skipped]_vars

\* A group without the one field the order of arrival may decide.
OrderFree(metrics) ==
    [ i \in DOMAIN metrics |->
        [ key |-> metrics[i].key,
          value |-> [ j \in DOMAIN metrics[i].value |->
              [ key |-> metrics[i].value[j].key,
                value |-> [ metrics[i].value[j].value EXCEPT
                              !.percentage_trays_over_hold = ZeroPercentage ] ] ] ] ]

\* C10: whatever the order in which the batches of a list and the readings
\* of each batch are taken, the call returns the groups the list's own
\* order gives, up to percentage_trays_over_hold.
C10_OrderDecidesOnlyPercentage ==
    PermReturned => OrderFree(daily_metrics) = OrderFree(PermReference)

\* Two orders of one list gave two values of percentage_trays_over_hold.
C10_Witness ==
    /\ PermReturned
    /\ daily_metrics # PermReference

====
